---- MODULE Spec2Model ----
(***************************************************************************)
(* Model of package httpkit: the Config record with its options, Override, *)
(* setDefaultZeroValues and Validate (config file with the TLS fields),    *)
(* and Serve, which runs an http.Server under an errgroup whose context is *)
(* cancelled by the caller's context, by SIGINT/SIGTERM or by the first    *)
(* task error.  ConfigSpec calls the Config methods and the option loop on  *)
(* their own; ClientSpec is client.Open of package pgxkit.                 *)
(*                                                                         *)
(* Durations are counted in seconds.  Errors are strings; "nil" is the nil *)
(* error.  A *tls.Config is "nil" or "tlsConfig".                          *)
(***************************************************************************)
EXTENDS Integers, Sequences, FiniteSets, TLC

\* ------------------------------------------------------------------ bounds
\* Longest option list handed to Serve.
MaxOpts == 2
\* Most connections that are serving a request at one time.
MaxInflight == 1
\* Most calls of Open on one client.
MaxCalls == 3

\* ------------------------------------------------------- program constants
_defaultPort == 8080
_defaultIdleTimeout == 60
_defaultReadTimeout == 5
_defaultWriteTimeout == 10
_defaultShutdownTimeout == 10

\* ------------------------------------------------------------ input values
Hosts == {"", "h"}
Ports == {-1, 0, 9090}
Durations == {-1, 0, 3}

\* ---------------------------------------------------------------- Config
\* var cfg Config: every field at its zero value.
ZeroConfig ==
    [Host |-> "", Port |-> 0, IdleTimeout |-> 0, ReadTimeout |-> 0,
     WriteTimeout |-> 0, ShutdownTimeout |-> 0, TLS |-> "nil", tlsErr |-> "nil"]

DefaultConfig ==
    [Host |-> "", Port |-> _defaultPort, IdleTimeout |-> _defaultIdleTimeout,
     ReadTimeout |-> _defaultReadTimeout, WriteTimeout |-> _defaultWriteTimeout,
     ShutdownTimeout |-> _defaultShutdownTimeout, TLS |-> "nil", tlsErr |-> "nil"]

\* (c Config) Addr(): net.JoinHostPort(c.Host, strconv.Itoa(c.Port)), the host
\* and the port of "host:port" kept as a pair.
Addr(c) == <<c.Host, c.Port>>

\* A mutant of Override: every field of other is copied, set or not.
OverrideCopiesAll(c, other) ==
    [c EXCEPT !.Host = other.Host, !.Port = other.Port,
              !.IdleTimeout = other.IdleTimeout, !.ReadTimeout = other.ReadTimeout,
              !.WriteTimeout = other.WriteTimeout,
              !.ShutdownTimeout = other.ShutdownTimeout]

\* (c *Config) Override(other): a field of other is copied when it is not the
\* zero value; TLS and tlsErr are not looked at.
Override(c, other) ==
    [c EXCEPT
       !.Host = IF other.Host # "" THEN other.Host ELSE @,
       !.Port = IF other.Port # 0 THEN other.Port ELSE @,
       !.IdleTimeout = IF other.IdleTimeout # 0 THEN other.IdleTimeout ELSE @,
       !.ReadTimeout = IF other.ReadTimeout # 0 THEN other.ReadTimeout ELSE @,
       !.WriteTimeout = IF other.WriteTimeout # 0 THEN other.WriteTimeout ELSE @,
       !.ShutdownTimeout =
           IF other.ShutdownTimeout # 0 THEN other.ShutdownTimeout ELSE @]

\* A mutant of setDefaultZeroValues: the port default is off by ten.
setDefaultZeroValuesWrongPort(c) ==
    [c EXCEPT
       !.Port = IF @ <= 0 THEN _defaultPort + 10 ELSE @,
       !.IdleTimeout = IF @ <= 0 THEN _defaultIdleTimeout ELSE @,
       !.ReadTimeout = IF @ <= 0 THEN _defaultReadTimeout ELSE @,
       !.WriteTimeout = IF @ <= 0 THEN _defaultWriteTimeout ELSE @,
       !.ShutdownTimeout = IF @ <= 0 THEN _defaultShutdownTimeout ELSE @]

\* (c *Config) setDefaultZeroValues(): every field that is <= 0 (not only = 0)
\* gets its default.
setDefaultZeroValues(c) ==
    [c EXCEPT
       !.Port = IF @ <= 0 THEN _defaultPort ELSE @,
       !.IdleTimeout = IF @ <= 0 THEN _defaultIdleTimeout ELSE @,
       !.ReadTimeout = IF @ <= 0 THEN _defaultReadTimeout ELSE @,
       !.WriteTimeout = IF @ <= 0 THEN _defaultWriteTimeout ELSE @,
       !.ShutdownTimeout = IF @ <= 0 THEN _defaultShutdownTimeout ELSE @]

\* The checks of Validate on the configuration d that setDefaultZeroValues
\* left, in the order of the code; the result is the error returned.
ValidateChecks(d) ==
    IF d.Port <= 0 THEN "ErrPort"
    ELSE IF d.IdleTimeout <= 0 THEN "ErrIdleTimeout"
    ELSE IF d.ReadTimeout <= 0 THEN "ErrReadTimeout"
    ELSE IF d.WriteTimeout <= 0 THEN "ErrWriteTimeout"
    ELSE IF d.ShutdownTimeout <= 0 THEN "ErrShutdownTimeout"
    ELSE IF d.TLS # "nil" /\ d.tlsErr # "nil" THEN "ErrTLS"
    ELSE "nil"

\* A mutant of Validate: the defaults are set on a copy (a value receiver), so
\* the checks pass and the caller's configuration stays as it was.
ValidateOnCopy(c) ==
    [cfg |-> c, err |-> ValidateChecks(setDefaultZeroValues(c))]

\* (c *Config) Validate(): the configuration as Validate leaves it (it works
\* through the pointer) and the error it returns.
Validate(c) ==
    LET d == setDefaultZeroValues(c)
    IN  [cfg |-> d, err |-> ValidateChecks(d)]

\* --------------------------------------------------------------- options
\* WithTLS(caFile, ceFile, keyFile): readable says whether the key pair and
\* the CA bundle load; on failure the option carries the error and no value.
WithTLS(readable) ==
    IF readable THEN [kind |-> "tls", value |-> "tlsConfig", err |-> "nil"]
    ELSE [kind |-> "tls", value |-> "nil", err |-> "loadErr"]

WithHost(v) == [kind |-> "host", str |-> v]
WithPort(v) == [kind |-> "port", num |-> v]
WithIdleTimeout(v) == [kind |-> "idle", num |-> v]
WithReadTimeout(v) == [kind |-> "read", num |-> v]
WithWriteTimeout(v) == [kind |-> "write", num |-> v]
WithShutdownTimeout(v) == [kind |-> "shutdown", num |-> v]
WithConfig(v) == [kind |-> "config", config |-> v]
WithConfigOptions(v) == [kind |-> "options", list |-> v]

\* Configurations handed to WithConfig.
Patches ==
    { [ZeroConfig EXCEPT !.Port = 9090, !.ShutdownTimeout = 3],
      [ZeroConfig EXCEPT !.Host = "h", !.ReadTimeout = -1] }

\* The options that hold no other option.
LeafOptions ==
    {WithHost(v) : v \in Hosts} \cup {WithPort(v) : v \in Ports}
    \cup {WithIdleTimeout(v) : v \in Durations}
    \cup {WithReadTimeout(v) : v \in Durations}
    \cup {WithWriteTimeout(v) : v \in Durations}
    \cup {WithShutdownTimeout(v) : v \in Durations}
    \cup {WithTLS(r) : r \in BOOLEAN}
    \cup {WithConfig(p) : p \in Patches}

\* Some composite options, one of them nested.
CompositeOptions ==
    { WithConfigOptions(<<>>),
      WithConfigOptions(<<WithPort(9090), WithPort(-1)>>),
      WithConfigOptions(<<WithTLS(FALSE),
                          WithConfigOptions(<<WithHost("h"), WithIdleTimeout(3)>>),
                          WithShutdownTimeout(-1)>>) }

Options == LeafOptions \cup CompositeOptions

\* opt.applyToConfig(&cfg), for each of the option types.
RECURSIVE applyToConfig(_, _)
RECURSIVE applyList(_, _)
\* A mutant of applyToConfig: WithPort sets the port only when it is non-zero,
\* as Override does.
applyToConfigPortIfSet(o, c) ==
    CASE o.kind = "host" -> [c EXCEPT !.Host = o.str]
      [] o.kind = "port" -> IF o.num # 0 THEN [c EXCEPT !.Port = o.num] ELSE c
      [] o.kind = "idle" -> [c EXCEPT !.IdleTimeout = o.num]
      [] o.kind = "read" -> [c EXCEPT !.ReadTimeout = o.num]
      [] o.kind = "write" -> [c EXCEPT !.WriteTimeout = o.num]
      [] o.kind = "shutdown" -> [c EXCEPT !.ShutdownTimeout = o.num]
      [] o.kind = "tls" -> [c EXCEPT !.TLS = o.value, !.tlsErr = o.err]
      [] o.kind = "config" -> Override(c, o.config)
      [] o.kind = "options" -> applyList(o.list, c)

applyToConfig(o, c) ==
    CASE o.kind = "host" -> [c EXCEPT !.Host = o.str]
      [] o.kind = "port" -> [c EXCEPT !.Port = o.num]
      [] o.kind = "idle" -> [c EXCEPT !.IdleTimeout = o.num]
      [] o.kind = "read" -> [c EXCEPT !.ReadTimeout = o.num]
      [] o.kind = "write" -> [c EXCEPT !.WriteTimeout = o.num]
      [] o.kind = "shutdown" -> [c EXCEPT !.ShutdownTimeout = o.num]
      [] o.kind = "tls" -> [c EXCEPT !.TLS = o.value, !.tlsErr = o.err]
      [] o.kind = "config" -> Override(c, o.config)
      [] o.kind = "options" -> applyList(o.list, c)

\* A mutant of applyList: the options are applied last to first.
RECURSIVE applyListBackwards(_, _)
applyListBackwards(opts, c) ==
    IF opts = <<>> THEN c
    ELSE applyToConfig(Head(opts), applyListBackwards(Tail(opts), c))

\* for _, opt := range opts { opt.applyToConfig(cfg) }
applyList(opts, c) ==
    IF opts = <<>> THEN c
    ELSE applyList(Tail(opts), applyToConfig(Head(opts), c))


\* ------------------------------------------------------------------ state
VARIABLES
    pc,           \* where Serve is: "options", "validate", "start", "wait", "done"
    nopts,        \* options applied so far
    cfg,          \* var cfg Config
    built,        \* cfg as the options left it, before Validate touched it
    verr,         \* what cfg.Validate() returned ("none" before the call)
    ctxDone,      \* the caller's ctx is cancelled
    subscribed,   \* signal.NotifyContext's subscription is installed
    subs,         \* subscriptions installed so far
    notifyDone,   \* the context of signal.NotifyContext is cancelled
    egCtxDone,    \* egCtx, the context of the errgroup, is cancelled
    egErr,        \* the error the errgroup keeps
    returns,      \* what the tasks returned, in the order they returned
    serveTask,    \* "idle", "start", "listen", "bound", "running", "done"
    watchTask,    \* "idle", "waiting", "polling", "done"
    inShutdown,   \* srv.inShutdown
    listener,     \* "none", "bound", "tracked", "closed"
    everRunning,  \* the serve task has been in its accept loop
    inflight,     \* connections that are serving a request
    shutdownCtx,  \* "none", "live", "Canceled", "DeadlineExceeded"
    elapsed,      \* seconds gone by since shutdownCtx was made
    signalled,    \* SIGINT or SIGTERM has cancelled the context of NotifyContext
    polled,       \* busy connections srv.Shutdown saw when it returned (-1 before)
    result,       \* what Serve returned ("none" before it returns)
    srv,          \* srv, the http.Server that Serve builds
    shutdowns,    \* calls of srv.Shutdown so far
    other,        \* the argument of a direct call of Override (ConfigSpec)
    applied,      \* the options a direct run of the option loop applied (ConfigSpec)
    client,       \* the pgxkit client that NewClient built (ClientSpec)
    openCalls     \* the calls of client.Open so far, in order (ClientSpec)

vars ==
    <<pc, nopts, cfg, built, verr, ctxDone, subscribed, subs, notifyDone,
      egCtxDone, egErr, returns, serveTask, watchTask, inShutdown, listener,
      everRunning, inflight, shutdownCtx, elapsed, signalled, polled, result,
      srv, shutdowns, other, applied, client, openCalls>>

cfgVars == <<nopts, cfg, built, verr>>
ctxVars == <<ctxDone, subscribed, subs, notifyDone, signalled>>
srvVars == <<inShutdown, listener, everRunning, inflight>>
sdVars == <<shutdownCtx, elapsed, polled>>
\* What no step of Serve touches.
outsideServe == <<other, applied, client, openCalls>>

\* The http.Server before Serve has built it.
NoServer ==
    [Addr |-> <<"", 0>>, IdleTimeout |-> 0, ReadTimeout |-> 0, WriteTimeout |-> 0]

\* The pgxkit client before NewClient has built it.
NoClient ==
    [log |-> FALSE, opened |-> FALSE, pool |-> 0, migrations |-> "nil",
     migrateAction |-> [IsSet |-> FALSE, Val |-> ""]]

\* What the steps before the option loop of Serve leave, cfg apart.
ServeRestInit ==
    /\ nopts = 0
    /\ verr = "none"
    /\ ctxDone = FALSE
    /\ subscribed = FALSE
    /\ subs = 0
    /\ notifyDone = FALSE
    /\ egCtxDone = FALSE
    /\ egErr = "nil"
    /\ returns = <<>>
    /\ serveTask = "idle"
    /\ watchTask = "idle"
    /\ inShutdown = FALSE
    /\ listener = "none"
    /\ everRunning = FALSE
    /\ inflight = 0
    /\ shutdownCtx = "none"
    /\ elapsed = 0
    /\ signalled = FALSE
    /\ polled = -1
    /\ result = "none"
    /\ srv = NoServer
    /\ shutdowns = 0

\* The state of one call of Serve at its entry.
ServeInit ==
    /\ cfg = ZeroConfig
    /\ built = ZeroConfig
    /\ ServeRestInit

\* What a direct call of a Config method or of the option loop leaves alone.
serveRest ==
    <<nopts, verr, ctxVars, egCtxDone, egErr, returns, serveTask, watchTask,
      srvVars, sdVars, result, srv, shutdowns>>

Init ==
    /\ pc = "options"
    /\ ServeInit
    /\ other = ZeroConfig
    /\ applied = <<>>
    /\ client = NoClient
    /\ openCalls = <<>>

\* ------------------------------------------------------------------ Serve
\* for _, opt := range opts { opt.applyToConfig(&cfg) }: one turn of the loop.
ApplyOption ==
    /\ pc = "options"
    /\ nopts < MaxOpts
    /\ \E o \in Options :
          /\ cfg' = applyToConfig(o, cfg)
          /\ built' = applyToConfig(o, cfg)
    /\ nopts' = nopts + 1
    /\ UNCHANGED <<pc, verr, ctxVars, egCtxDone, egErr, returns, serveTask,
                   watchTask, srvVars, sdVars, result>>
    /\ UNCHANGED <<srv, shutdowns, outsideServe>>

\* The loop over opts ends.
OptionsDone ==
    /\ pc = "options"
    /\ pc' = "validate"
    /\ UNCHANGED <<cfgVars, ctxVars, egCtxDone, egErr, returns, serveTask,
                   watchTask, srvVars, sdVars, result>>
    /\ UNCHANGED <<srv, shutdowns, outsideServe>>

\* if err := cfg.Validate(); err != nil { return err }
ValidateConfig ==
    /\ pc = "validate"
    /\ LET v == Validate(cfg)
       IN  /\ cfg' = v.cfg
           /\ verr' = v.err
           /\ IF v.err # "nil"
              THEN pc' = "done" /\ result' = v.err
              ELSE pc' = "start" /\ result' = result
    /\ UNCHANGED <<nopts, built, ctxVars, egCtxDone, egErr, returns, serveTask,
                   watchTask, srvVars, sdVars>>
    /\ UNCHANGED <<srv, shutdowns, outsideServe>>

\* srv := &http.Server{...}; eg, egCtx, stop := withErrGroupNotifyContext(ctx);
\* defer stop(); eg.Go(serve); eg.Go(watch).  A context made from a cancelled
\* parent is cancelled from the start.
Start ==
    /\ pc = "start"
    /\ pc' = "wait"
    /\ subscribed' = TRUE
    /\ subs' = subs + 1
    /\ notifyDone' = ctxDone
    /\ egCtxDone' = ctxDone
    /\ srv' = [Addr |-> Addr(cfg), IdleTimeout |-> cfg.IdleTimeout,
                ReadTimeout |-> cfg.ReadTimeout,
                WriteTimeout |-> cfg.WriteTimeout]
    /\ serveTask' = "start"
    /\ watchTask' = "waiting"
    /\ UNCHANGED <<cfgVars, ctxDone, signalled, egErr, returns, srvVars, sdVars,
                   result>>
    /\ UNCHANGED <<shutdowns, outsideServe>>

\* A mutant of errOnce: the error of the task that returns last is kept.
errLast(kept, e) == IF e # "nil" THEN e ELSE kept

\* A mutant of errOnce: what the last task returned is kept, nil too.
errOverwritten(kept, e) == e

\* errOnce.Do of the errgroup: the first error is kept.
errOnce(kept, e) == IF kept = "nil" THEN e ELSE kept

\* A mutant of TaskReturns: the error is kept but egCtx is not cancelled on it.
TaskReturnsNoCancel(t, e) ==
    /\ returns' = Append(returns, [task |-> t, err |-> e])
    /\ egErr' = errOnce(egErr, e)
    /\ egCtxDone' = egCtxDone

\* The function that eg.Go runs as task t returns e: the errgroup keeps the
\* first error and cancels egCtx on it.
TaskReturns(t, e) ==
    /\ returns' = Append(returns, [task |-> t, err |-> e])
    /\ egErr' = errOnce(egErr, e)
    /\ egCtxDone' = (egCtxDone \/ e # "nil")

\* A mutant of Wait: Serve returns without the deferred stop().
WaitWithoutStop ==
    /\ pc = "wait"
    /\ serveTask = "done"
    /\ watchTask = "done"
    /\ pc' = "done"
    /\ result' = egErr
    /\ egCtxDone' = TRUE
    /\ UNCHANGED <<cfgVars, ctxVars, egErr, returns, serveTask, watchTask,
                   srvVars, sdVars>>
    /\ UNCHANGED <<srv, shutdowns, outsideServe>>

\* return eg.Wait(), then the deferred stop(): both tasks are over; Wait cancels
\* egCtx and returns the error kept; stop ends the signal subscription.
Wait ==
    /\ pc = "wait"
    /\ serveTask = "done"
    /\ watchTask = "done"
    /\ pc' = "done"
    /\ result' = egErr
    /\ egCtxDone' = TRUE
    /\ subscribed' = FALSE
    /\ notifyDone' = TRUE
    /\ UNCHANGED <<cfgVars, ctxDone, subs, signalled, egErr, returns, serveTask,
                   watchTask, srvVars, sdVars>>
    /\ UNCHANGED <<srv, shutdowns, outsideServe>>

\* ------------------------------------------------------------ environment
\* The caller cancels ctx: every context derived from it is cancelled with it.
CancelCtx ==
    /\ pc # "done"
    /\ ~ctxDone
    /\ ctxDone' = TRUE
    /\ notifyDone' = (notifyDone \/ pc = "wait")
    /\ egCtxDone' = (egCtxDone \/ pc = "wait")
    /\ shutdownCtx' = IF shutdownCtx = "live" THEN "Canceled" ELSE shutdownCtx
    /\ UNCHANGED <<pc, cfgVars, subscribed, subs, signalled, egErr, returns,
                   serveTask, watchTask, srvVars, elapsed, polled, result>>
    /\ UNCHANGED <<srv, shutdowns, outsideServe>>

\* SIGINT or SIGTERM arrives while the subscription is installed: the context
\* of signal.NotifyContext is cancelled, and egCtx with it.
Signal ==
    /\ subscribed
    /\ ~notifyDone
    /\ signalled' = TRUE
    /\ notifyDone' = TRUE
    /\ egCtxDone' = TRUE
    /\ UNCHANGED <<pc, cfgVars, ctxDone, subscribed, subs, egErr, returns,
                   serveTask, watchTask, srvVars, sdVars, result>>
    /\ UNCHANGED <<srv, shutdowns, outsideServe>>

\* The timer of context.WithTimeout(ctx, cfg.ShutdownTimeout) fires.
DeadlineElapses ==
    /\ shutdownCtx = "live"
    /\ watchTask = "polling"
    /\ shutdownCtx' = "DeadlineExceeded"
    /\ elapsed' = cfg.ShutdownTimeout
    /\ UNCHANGED <<pc, cfgVars, ctxVars, egCtxDone, egErr, returns, serveTask,
                   watchTask, srvVars, polled, result>>
    /\ UNCHANGED <<srv, shutdowns, outsideServe>>

\* A connection is accepted and its request is handed to the handler.
Accept ==
    /\ serveTask = "running"
    /\ ~inShutdown
    /\ inflight < MaxInflight
    /\ inflight' = inflight + 1
    /\ UNCHANGED <<pc, cfgVars, ctxVars, egCtxDone, egErr, returns, serveTask,
                   watchTask, inShutdown, listener, everRunning, sdVars, result>>
    /\ UNCHANGED <<srv, shutdowns, outsideServe>>

\* The handler returns: the connection is idle again.
RequestDone ==
    /\ inflight > 0
    /\ inflight' = inflight - 1
    /\ UNCHANGED <<pc, cfgVars, ctxVars, egCtxDone, egErr, returns, serveTask,
                   watchTask, inShutdown, listener, everRunning, sdVars, result>>
    /\ UNCHANGED <<srv, shutdowns, outsideServe>>

\* -------------------------------------------------------------- serve task
\* srv.ListenAndServe() begins: a server that is shutting down answers
\* ErrServerClosed, which the task turns into nil.
ServeCheck ==
    /\ serveTask = "start"
    /\ IF inShutdown
       THEN serveTask' = "done" /\ TaskReturns("serve", "nil")
       ELSE serveTask' = "listen" /\ UNCHANGED <<egCtxDone, egErr, returns>>
    /\ UNCHANGED <<pc, cfgVars, ctxVars, watchTask, srvVars, sdVars, result>>
    /\ UNCHANGED <<srv, shutdowns, outsideServe>>

\* net.Listen("tcp", srv.Addr) succeeds.
ServeListen ==
    /\ serveTask = "listen"
    /\ serveTask' = "bound"
    /\ listener' = "bound"
    /\ UNCHANGED <<pc, cfgVars, ctxVars, egCtxDone, egErr, returns, watchTask,
                   inShutdown, everRunning, inflight, sdVars, result>>
    /\ UNCHANGED <<srv, shutdowns, outsideServe>>

\* A mutant of ServeListenFails: the error of ListenAndServe is dropped.
ServeListenFailsSilently ==
    /\ serveTask = "listen"
    /\ serveTask' = "done"
    /\ TaskReturns("serve", "nil")
    /\ UNCHANGED <<pc, cfgVars, ctxVars, watchTask, srvVars, sdVars, result>>
    /\ UNCHANGED <<srv, shutdowns, outsideServe>>

\* net.Listen fails (the address is in use, say): the task returns the error.
ServeListenFails ==
    /\ serveTask = "listen"
    /\ serveTask' = "done"
    /\ TaskReturns("serve", "BindErr")
    /\ UNCHANGED <<pc, cfgVars, ctxVars, watchTask, srvVars, sdVars, result>>
    /\ UNCHANGED <<srv, shutdowns, outsideServe>>

\* srv.Serve(ln) registers the listener, unless the server is shutting down:
\* then it closes the listener and answers ErrServerClosed.
ServeTrack ==
    /\ serveTask = "bound"
    /\ IF inShutdown
       THEN /\ serveTask' = "done"
            /\ listener' = "closed"
            /\ everRunning' = everRunning
            /\ TaskReturns("serve", "nil")
       ELSE /\ serveTask' = "running"
            /\ listener' = "tracked"
            /\ everRunning' = TRUE
            /\ UNCHANGED <<egCtxDone, egErr, returns>>
    /\ UNCHANGED <<pc, cfgVars, ctxVars, watchTask, inShutdown, inflight, sdVars,
                   result>>
    /\ UNCHANGED <<srv, shutdowns, outsideServe>>

\* Accept fails for good while the server is not shutting down: Serve closes
\* the listener and the task returns the error.
ServeFails ==
    /\ serveTask = "running"
    /\ ~inShutdown
    /\ serveTask' = "done"
    /\ listener' = "closed"
    /\ TaskReturns("serve", "ServeErr")
    /\ UNCHANGED <<pc, cfgVars, ctxVars, watchTask, inShutdown, everRunning,
                   inflight, sdVars, result>>
    /\ UNCHANGED <<srv, shutdowns, outsideServe>>

\* Accept fails because Shutdown closed the listener: ErrServerClosed, so the
\* task returns nil.
ServeClosed ==
    /\ serveTask = "running"
    /\ inShutdown
    /\ serveTask' = "done"
    /\ TaskReturns("serve", "nil")
    /\ UNCHANGED <<pc, cfgVars, ctxVars, watchTask, srvVars, sdVars, result>>
    /\ UNCHANGED <<srv, shutdowns, outsideServe>>

\* ------------------------------------------------------------ watcher task
\* context.WithTimeout(parent, d): cancelled at once when the parent is, over
\* its deadline at once when d <= 0.
WithTimeout(parentDone, d) ==
    IF parentDone THEN "Canceled"
    ELSE IF d <= 0 THEN "DeadlineExceeded"
    ELSE "live"

\* A mutant of WatchWakes: the watcher does not wait for egCtx.
WatchWakesAtOnce ==
    /\ watchTask = "waiting"
    /\ watchTask' = "polling"
    /\ shutdownCtx' = WithTimeout(ctxDone, cfg.ShutdownTimeout)
    /\ shutdowns' = shutdowns + 1
    /\ inShutdown' = TRUE
    /\ listener' = IF listener = "tracked" THEN "closed" ELSE listener
    /\ UNCHANGED <<pc, cfgVars, ctxVars, egCtxDone, egErr, returns, serveTask,
                   everRunning, inflight, elapsed, polled, result>>
    /\ UNCHANGED <<srv, outsideServe>>

\* <-egCtx.Done() returns; shutdownCtx is made from ctx; srv.Shutdown begins:
\* it sets inShutdown and closes the registered listeners.
WatchWakes ==
    /\ watchTask = "waiting"
    /\ egCtxDone
    /\ watchTask' = "polling"
    /\ shutdownCtx' = WithTimeout(ctxDone, cfg.ShutdownTimeout)
    /\ shutdowns' = shutdowns + 1
    /\ inShutdown' = TRUE
    /\ listener' = IF listener = "tracked" THEN "closed" ELSE listener
    /\ UNCHANGED <<pc, cfgVars, ctxVars, egCtxDone, egErr, returns, serveTask,
                   everRunning, inflight, elapsed, polled, result>>
    /\ UNCHANGED <<srv, outsideServe>>

\* A mutant of ShutdownPoll: the context is looked at before the connections.
ShutdownPollContextFirst(busy, sctx) ==
    IF sctx # "live" THEN sctx
    ELSE IF busy = 0 THEN "nil"
    ELSE "pending"

\* What srv.Shutdown(shutdownCtx) answers when it looks: nil when no connection
\* is busy, the context's error when the context is over, else it keeps polling
\* ("pending").
ShutdownPoll(busy, sctx) ==
    IF busy = 0 THEN "nil"
    ELSE IF sctx # "live" THEN sctx
    ELSE "pending"

\* srv.Shutdown returns, once the Serve calls on registered listeners are over,
\* and the task returns what it answered.
ShutdownReturns ==
    /\ watchTask = "polling"
    /\ serveTask # "running"
    /\ ShutdownPoll(inflight, shutdownCtx) # "pending"
    /\ watchTask' = "done"
    /\ polled' = inflight
    /\ TaskReturns("watch", ShutdownPoll(inflight, shutdownCtx))
    /\ UNCHANGED <<pc, cfgVars, ctxVars, serveTask, srvVars, shutdownCtx, elapsed,
                   result>>
    /\ UNCHANGED <<srv, shutdowns, outsideServe>>

Next ==
    \/ ApplyOption \/ OptionsDone \/ ValidateConfig \/ Start \/ Wait
    \/ CancelCtx \/ Signal \/ DeadlineElapses \/ Accept \/ RequestDone
    \/ ServeCheck \/ ServeListen \/ ServeListenFails \/ ServeTrack
    \/ ServeFails \/ ServeClosed
    \/ WatchWakes \/ ShutdownReturns

Spec == Init /\ [][Next]_vars

\* ------------------------------------------- Config methods, called directly
\* What TLS and tlsErr can hold: nothing, a loaded configuration, or the error
\* of a WithTLS that failed.
TLSStates == {<<"nil", "nil">>, <<"tlsConfig", "nil">>, <<"nil", "loadErr">>}

\* The configurations a method is called on: every combination of the input
\* values.
Configs ==
    { [Host |-> h, Port |-> p, IdleTimeout |-> i, ReadTimeout |-> r,
       WriteTimeout |-> w, ShutdownTimeout |-> s, TLS |-> t[1], tlsErr |-> t[2]] :
        h \in Hosts, p \in Ports, i \in Durations, r \in Durations,
        w \in Durations, s \in Durations, t \in TLSStates }

\* The configurations handed to Override: every field is either unset or set,
\* the idle timeout to a negative value.
Others ==
    { [Host |-> h, Port |-> p, IdleTimeout |-> i, ReadTimeout |-> r,
       WriteTimeout |-> w, ShutdownTimeout |-> s, TLS |-> t, tlsErr |-> "nil"] :
        h \in {"", "o"}, p \in {0, 7070}, i \in {0, -1}, r \in {0, 7},
        w \in {0, 7}, s \in {0, 7}, t \in {"nil", "otherTLS"} }

ConfigInit ==
    /\ pc = "config"
    /\ cfg \in Configs
    /\ built = cfg
    /\ ServeRestInit
    /\ other = ZeroConfig
    /\ applied = <<>>
    /\ client = NoClient
    /\ openCalls = <<>>

\* cfg.Override(o), for some o.
CallOverride ==
    /\ pc = "config"
    /\ pc' = "Override"
    /\ \E o \in Others :
          /\ other' = o
          /\ cfg' = Override(cfg, o)
    /\ UNCHANGED <<built, applied, serveRest, client, openCalls>>

\* cfg.setDefaultZeroValues()
CallSetDefaultZeroValues ==
    /\ pc = "config"
    /\ pc' = "setDefaultZeroValues"
    /\ cfg' = setDefaultZeroValues(cfg)
    /\ UNCHANGED <<built, other, applied, serveRest, client, openCalls>>

\* var cfg Config; for _, opt := range opts { opt.applyToConfig(&cfg) }: one
\* turn of the loop of Serve, the options applied being recorded.
LoopApply ==
    /\ pc \in {"config", "loop"}
    /\ built = ZeroConfig
    /\ Len(applied) < MaxOpts
    /\ pc' = "loop"
    /\ \E o \in Options :
          /\ applied' = Append(applied, o)
          /\ cfg' = applyToConfig(o, cfg)
    /\ UNCHANGED <<built, other, serveRest, client, openCalls>>

ConfigNext == CallOverride \/ CallSetDefaultZeroValues \/ LoopApply

ConfigSpec == ConfigInit /\ [][ConfigNext]_vars

\* ------------------------------------------------------- the pgxkit client
\* WithLogger(log): log is TRUE for a logger, FALSE for a nil one.
WithLogger(log, c) == [c EXCEPT !.log = log]

\* WithMigrations(fsys, act)
WithMigrations(fsys, act, c) ==
    [c EXCEPT !.migrations = fsys, !.migrateAction = [IsSet |-> TRUE, Val |-> act]]

\* The actions handed to WithMigrations: MigrateUp, MigrateDown, and a string
\* that is neither.
MigrateActions == {"up", "down", "sideways"}

\* NewClient(url, opts...): the clients the options above build.
NewClient ==
    LET logged == {WithLogger(l, NoClient) : l \in BOOLEAN}
    IN  logged \cup { WithMigrations(f, a, c) :
                         f \in {"nil", "fs"}, a \in MigrateActions, c \in logged }

\* Open(ctx, url) of the package: pgxpool.New fails, Ping fails, or both
\* succeed.
Open == {"nil", "NewErr", "PingErr"}

\* (c *client) Migrate(ctx, fsys, act): a step before the switch fails, or the
\* migrator answers; an action that is neither up nor down is an error.
Migrate(act) ==
    IF act \in {"up", "down"} THEN {"nil", "MigrateErr"} ELSE {"MigrateErr"}

\* (c *client) Open(ctx): the ways one call can end, each with the client it
\* leaves, whether it called Open of the package and whether it called Migrate.
\* c.log.Info on a nil logger panics, after c.opened was set.
clientOpen(c) ==
    IF c.opened
    THEN {[ret |-> "nil", client |-> c, connected |-> FALSE, migrated |-> FALSE]}
    ELSE LET d == [c EXCEPT !.pool = @ + 1, !.opened = TRUE]
         IN  {[ret |-> e, client |-> c, connected |-> TRUE, migrated |-> FALSE] :
                  e \in Open \ {"nil"}}
             \cup
             (IF ~d.log
              THEN {[ret |-> "panic", client |-> d, connected |-> TRUE,
                     migrated |-> FALSE]}
              ELSE IF d.migrations # "nil" /\ d.migrateAction.IsSet
              THEN {[ret |-> e, client |-> d, connected |-> TRUE,
                     migrated |-> TRUE] : e \in Migrate(d.migrateAction.Val)}
              ELSE {[ret |-> "nil", client |-> d, connected |-> TRUE,
                     migrated |-> FALSE]})

ClientInit ==
    /\ pc = "client"
    /\ client \in NewClient
    /\ openCalls = <<>>
    /\ ServeInit
    /\ other = ZeroConfig
    /\ applied = <<>>

\* One call of client.Open, a record of it kept: what it returned, what it
\* called, and the opened flag it left.
CallOpen ==
    /\ pc = "client"
    /\ Len(openCalls) < MaxCalls
    /\ \E r \in clientOpen(client) :
          /\ client' = r.client
          /\ openCalls' = Append(openCalls,
                                 [ret |-> r.ret, connected |-> r.connected,
                                  migrated |-> r.migrated,
                                  opened |-> r.client.opened])
    /\ UNCHANGED <<pc, cfgVars, serveRest, other, applied>>

ClientNext == CallOpen

ClientSpec == ClientInit /\ [][ClientNext]_vars

\* Fairness: a goroutine that can take its next step takes it, net.Listen
\* answers one way or the other, the timer of shutdownCtx fires, and Serve
\* itself goes on.  Nothing makes the caller cancel, a signal arrive, a client
\* connect, a handler return or Accept fail.
FairSpec ==
    /\ Spec
    /\ WF_vars(OptionsDone) /\ WF_vars(ValidateConfig) /\ WF_vars(Start)
    /\ WF_vars(Wait)
    /\ WF_vars(ServeCheck) /\ WF_vars(ServeListen \/ ServeListenFails)
    /\ WF_vars(ServeTrack) /\ WF_vars(ServeClosed)
    /\ WF_vars(WatchWakes) /\ WF_vars(ShutdownReturns)
    /\ WF_vars(DeadlineElapses)

\* ----------------------------------------------------------------- claims
\* What task t returned, "none" while it runs.
Ret(t) ==
    IF \E i \in 1..Len(returns) : returns[i].task = t
    THEN returns[CHOOSE i \in 1..Len(returns) : returns[i].task = t].err
    ELSE "none"

\* The first error that is not nil in a sequence of task returns, nil when
\* there is none.
FirstError(rs) ==
    IF \A i \in 1..Len(rs) : rs[i].err = "nil" THEN "nil"
    ELSE rs[CHOOSE i \in 1..Len(rs) :
                /\ rs[i].err # "nil"
                /\ \A j \in 1..(i - 1) : rs[j].err = "nil"].err

\* The configurations the validation rules reject: a port or a timeout that is
\* set (not zero) and not positive, or a TLS option whose construction failed.
Rejected(c) ==
    \/ c.Port < 0
    \/ c.IdleTimeout < 0
    \/ c.ReadTimeout < 0
    \/ c.WriteTimeout < 0
    \/ c.ShutdownTimeout < 0
    \/ c.tlsErr # "nil"

C2_NegativePortIsPortError ==
    (verr # "none" /\ built.Port < 0) => verr = "ErrPort"

\* C3: Validate on a configuration that a failed TLS option was applied to
\* returns the TLS error when the port and the four timeouts are valid.
C3_FailedTLSFailsValidate ==
    (/\ verr # "none"
     /\ built.tlsErr # "nil"
     /\ built.Port >= 0
     /\ built.IdleTimeout >= 0
     /\ built.ReadTimeout >= 0
     /\ built.WriteTimeout >= 0
     /\ built.ShutdownTimeout >= 0) => verr = "ErrTLS"

\* C4: whether the caller's cancellation or a signal cancelled egCtx (no task
\* failed), the shutdown is not given up (the watcher does not return an
\* error) before cfg.ShutdownTimeout has gone by.
C4_ShutdownGetsFullGracePeriod ==
    (/\ Ret("watch") \notin {"none", "nil"}
     /\ Ret("serve") \in {"none", "nil"}) => elapsed >= cfg.ShutdownTimeout

\* C5: Serve returns from eg.Wait only when both tasks have returned, and it
\* returns the first error a task returned, nil when both returned nil.
C5_WaitsForBothFirstErrorWins ==
    (pc = "done" /\ verr = "nil") =>
        /\ serveTask = "done"
        /\ watchTask = "done"
        /\ Len(returns) = 2
        /\ result = FirstError(returns)

\* C5 witness: Serve has returned after both tasks returned an error, and the
\* two errors differ.
C5_Witness ==
    /\ pc = "done"
    /\ Len(returns) = 2
    /\ returns[1].err # "nil"
    /\ returns[2].err # "nil"
    /\ returns[1].err # returns[2].err
    /\ result = returns[1].err

\* Something that cancels egCtx has happened during the run of the two tasks:
\* the caller cancelled ctx, a signal arrived, or a task returned an error.
Triggered ==
    /\ pc = "wait"
    /\ \/ ctxDone
       \/ signalled
       \/ \E i \in 1..Len(returns) : returns[i].err # "nil"

\* C6: once a task has returned an error, the caller has cancelled ctx or a
\* signal has arrived, egCtx is cancelled, and from then on both tasks finish
\* and Serve returns.
C6_CancelledThenServeReturns ==
    /\ [](Triggered => egCtxDone)
    /\ (Triggered ~> pc = "done")

\* C6 witness: Serve has returned after a signal stopped a server that was in
\* its accept loop and whose listen did not fail.
C6_Witness ==
    /\ pc = "done"
    /\ signalled
    /\ ~ctxDone
    /\ everRunning
    /\ Ret("serve") = "nil"

\* C7: when net.Listen fails the serve task is never in its accept loop and
\* Serve returns the bind error, whatever the watcher returns; the accept loop
\* is entered only with a listener that was bound.
C7_BindFailureIsTheResult ==
    /\ Ret("serve") = "BindErr" =>
          /\ ~everRunning
          /\ listener = "none"
          /\ pc = "done" => result = "BindErr"
    /\ everRunning => listener \in {"tracked", "closed"}

\* C7 witness: Serve has returned the bind error; neither the caller nor a
\* signal cancelled anything, so it is the errgroup that woke the watcher.
C7_Witness ==
    /\ pc = "done"
    /\ result = "BindErr"
    /\ Ret("watch") = "nil"
    /\ ~ctxDone
    /\ ~signalled

\* The runs C8 is about, once Serve has returned: the configuration was valid,
\* the caller cancelled ctx, no signal arrived, net.Listen and Accept did not
\* fail, and Shutdown found no busy connection.
C8_Case ==
    /\ pc = "done"
    /\ verr = "nil"
    /\ ctxDone
    /\ ~signalled
    /\ Ret("serve") = "nil"
    /\ polled = 0

\* C8 as claimed: in every such run the serve task has been in its accept
\* loop (Running) before the shutdown, and Serve returns nil before the
\* shutdown deadline.
C8_AlwaysRunningThenShutdown ==
    C8_Case =>
        /\ everRunning
        /\ inShutdown
        /\ result = "nil"
        /\ elapsed < cfg.ShutdownTimeout

\* C8 as amended: in every such run the server has been shut down, no listener
\* is left open, and Serve returns nil with no time of the shutdown deadline
\* used up; whether the serve task was ever in its accept loop depends on the
\* interleaving.
C8_CancelledRunReturnsNil ==
    C8_Case =>
        /\ inShutdown
        /\ listener \in {"none", "closed"}
        /\ result = "nil"
        /\ elapsed = 0

\* C8 witness: such a run in which the serve task was in its accept loop and
\* the listener was then closed by the shutdown.
C8_Witness ==
    /\ C8_Case
    /\ everRunning
    /\ listener = "closed"
    /\ result = "nil"

\* C9: when egCtx is cancelled with a request in flight that never completes
\* (Shutdown returns with the connection still busy; net.Listen and Accept did
\* not fail), Serve returns an error, and only once cfg.ShutdownTimeout has
\* gone by.
C9_StuckRequestFailsAtDeadline ==
    (pc = "done" /\ polled > 0 /\ Ret("serve") = "nil") =>
        /\ result \notin {"none", "nil"}
        /\ elapsed >= cfg.ShutdownTimeout

\* C10: Validate on the zero Config returns nil and leaves port 8080, idle
\* timeout 60s, read timeout 5s, write timeout 10s, shutdown timeout 10s and an
\* empty host.
C10_ZeroConfigGetsDefaults ==
    (verr # "none" /\ built = ZeroConfig) =>
        /\ verr = "nil"
        /\ cfg = [Host |-> "", Port |-> 8080, IdleTimeout |-> 60,
                  ReadTimeout |-> 5, WriteTimeout |-> 10,
                  ShutdownTimeout |-> 10, TLS |-> "nil", tlsErr |-> "nil"]
        /\ cfg = DefaultConfig

\* C10 witness: Validate has returned nil on a configuration that no option
\* had touched.
C10_Witness ==
    /\ verr = "nil"
    /\ nopts = 0
    /\ built = ZeroConfig
    /\ pc = "start"

\* C11: whenever Validate returned nil, the port and the four timeouts of the
\* configuration are > 0, and so are the port and the timeouts srv was built
\* with and the timeout shutdownCtx was made with.
C11_ValidatedConfigIsPositive ==
    /\ verr = "nil" =>
          /\ cfg.Port > 0
          /\ cfg.IdleTimeout > 0
          /\ cfg.ReadTimeout > 0
          /\ cfg.WriteTimeout > 0
          /\ cfg.ShutdownTimeout > 0
    /\ srv # NoServer =>
          /\ srv.Addr[2] > 0
          /\ srv.IdleTimeout > 0
          /\ srv.ReadTimeout > 0
          /\ srv.WriteTimeout > 0
          /\ srv.Addr = <<built.Host, cfg.Port>>
    /\ shutdownCtx # "none" => cfg.ShutdownTimeout > 0

\* C11 witness: options set a negative port and a negative shutdown timeout,
\* Validate returned nil, and the watcher has made shutdownCtx with a deadline
\* still to come.
C11_Witness ==
    /\ verr = "nil"
    /\ built.Port < 0
    /\ built.ShutdownTimeout < 0
    /\ srv # NoServer
    /\ shutdownCtx = "live"
\* The fields Override looks at, and whether a value of one is set.
PatchedFields ==
    {"Host", "Port", "IdleTimeout", "ReadTimeout", "WriteTimeout", "ShutdownTimeout"}

IsSet(f, v) == IF f = "Host" THEN v # "" ELSE v # 0

\* C12: after c.Override(p), each of host, port and the four timeouts holds
\* p's value where p's value is non-zero and c's earlier value where it is zero,
\* and overriding with p once more changes nothing.
C12_OverrideIsSparseAndIdempotent ==
    pc = "Override" =>
        /\ \A f \in PatchedFields :
              cfg[f] = IF IsSet(f, other[f]) THEN other[f] ELSE built[f]
        /\ Override(cfg, other) = cfg

\* An override with a patch that sets some fields, one to a negative value, and
\* leaves others unset, on a target whose fields are all set.
C12_Witness ==
    /\ pc = "Override"
    /\ other.Host = "" /\ other.Port = 7070 /\ other.IdleTimeout = -1
    /\ other.ReadTimeout = 0 /\ other.ShutdownTimeout = 7
    /\ built.Host = "h" /\ built.Port = 9090 /\ built.ReadTimeout = 3
    /\ cfg.Host = "h" /\ cfg.Port = 7070 /\ cfg.IdleTimeout = -1
    /\ cfg.ReadTimeout = 3
\* The options of a list with every composite replaced by what it holds, in
\* order.
RECURSIVE Flatten(_)
Flatten(opts) ==
    IF opts = <<>> THEN <<>>
    ELSE IF Head(opts).kind = "options"
         THEN Flatten(Head(opts).list) \o Flatten(Tail(opts))
         ELSE <<Head(opts)>> \o Flatten(Tail(opts))

\* Options that hold no other option, applied one by one.
RECURSIVE ApplyLeaves(_, _)
ApplyLeaves(leaves, c) ==
    IF leaves = <<>> THEN c
    ELSE ApplyLeaves(Tail(leaves), applyToConfig(Head(leaves), c))

\* C13: an option list with composites, nested or not and anywhere in the list,
\* yields the configuration that the options the composites hold yield when
\* applied one by one in order.
C13_CompositeEqualsItsOptionsInOrder ==
    pc = "loop" => cfg = ApplyLeaves(Flatten(applied), ZeroConfig)

\* A nested composite applied after another option: its three effects are there
\* in order, the failed WithTLS it holds undoing the earlier one.
C13_Witness ==
    /\ pc = "loop"
    /\ Len(applied) = 2
    /\ applied[1].kind = "tls" /\ applied[1].value = "tlsConfig"
    /\ applied[2].kind = "options" /\ Len(applied[2].list) = 3
    /\ cfg.TLS = "nil" /\ cfg.tlsErr = "loadErr"
    /\ cfg.Host = "h" /\ cfg.IdleTimeout = 3 /\ cfg.ShutdownTimeout = -1
\* The field a scalar setter writes.
SetterField(kind) ==
    CASE kind = "host" -> "Host"
      [] kind = "port" -> "Port"
      [] kind = "idle" -> "IdleTimeout"
      [] kind = "read" -> "ReadTimeout"
      [] kind = "write" -> "WriteTimeout"
      [] kind = "shutdown" -> "ShutdownTimeout"
      [] OTHER -> "none"

\* Whether the leaf option o writes field f, and the value it writes: a scalar
\* setter writes its field whatever the value, WithTLS writes TLS and tlsErr,
\* WithConfig writes the fields of its configuration that are set.
Writes(o, f) ==
    CASE o.kind = "tls" -> f \in {"TLS", "tlsErr"}
      [] o.kind = "config" -> f \in PatchedFields /\ IsSet(f, o.config[f])
      [] OTHER -> f = SetterField(o.kind)

Written(o, f) ==
    CASE o.kind = "tls" -> IF f = "TLS" THEN o.value ELSE o.err
      [] o.kind = "config" -> o.config[f]
      [] o.kind = "host" -> o.str
      [] OTHER -> o.num

\* What the last option of leaves that writes f wrote, the zero value when none
\* does.
RECURSIVE LastWritten(_, _)
LastWritten(leaves, f) ==
    IF leaves = <<>> THEN ZeroConfig[f]
    ELSE LET o == leaves[Len(leaves)]
         IN  IF Writes(o, f) THEN Written(o, f)
             ELSE LastWritten(SubSeq(leaves, 1, Len(leaves) - 1), f)

\* C14: after the option loop, each field of the configuration holds what the
\* last option writing it wrote: a scalar setter writes always, a zero value
\* too, and WithConfig writes only the fields set in its configuration.
C14_LastWriterWins ==
    pc = "loop" =>
        \A f \in DOMAIN ZeroConfig : cfg[f] = LastWritten(Flatten(applied), f)

\* WithPort(0) after WithPort(9090): the port is zero again.
C14_Witness ==
    /\ pc = "loop"
    /\ Len(applied) = 2
    /\ applied[1].kind = "port" /\ applied[1].num = 9090
    /\ applied[2].kind = "port" /\ applied[2].num = 0
    /\ cfg.Port = 0
\* C15: setDefaultZeroValues sets the fields that hold their zero value to the
\* built-in default and leaves every field that holds another value as it was.
C15_OnlyZeroFieldsGetDefaults ==
    pc = "setDefaultZeroValues" =>
        \A f \in DOMAIN ZeroConfig :
            cfg[f] = IF built[f] = ZeroConfig[f] THEN DefaultConfig[f] ELSE built[f]
\* C16: one call of Serve installs the signal subscription at most once, holds
\* it only between withErrGroupNotifyContext and its return, and has none
\* installed once it has returned, whatever it returns.
C16_SubscriptionScopedToCall ==
    /\ subs <= 1
    /\ subscribed => (pc = "wait" /\ subs = 1)
    /\ pc \in {"options", "validate", "start"} => subs = 0
    /\ pc = "done" => ~subscribed

\* Serve has returned the error of a shutdown that ran out of time, after a
\* signal; the subscription it installed is gone.
C16_Witness ==
    /\ pc = "done"
    /\ result = "DeadlineExceeded"
    /\ signalled
    /\ subs = 1
    /\ ~subscribed
\* C17: in one call of Serve, srv.Shutdown is called at most once and only when
\* egCtx is cancelled, Serve does not return without it, and whenever egCtx is
\* cancelled (by the caller, a signal or the error of a task) it is called.
C17_ShutdownOnceAndOnlyAfterCancel ==
    /\ [](/\ shutdowns <= 1
          /\ shutdowns = 1 => egCtxDone
          /\ pc = "done" => shutdowns = 1)
    /\ (egCtxDone ~> shutdowns = 1)

\* The error of the serve task cancelled egCtx, no caller and no signal did, and
\* the watcher has called Shutdown.
C17_Witness ==
    /\ pc = "wait"
    /\ ~ctxDone /\ ~signalled
    /\ Ret("serve") \notin {"none", "nil"}
    /\ egCtxDone
    /\ shutdowns = 1
\* C19: Serve returns nil only when the caller's ctx was cancelled or a signal
\* arrived and Shutdown was then called and returned nil, both tasks having
\* returned nil; and the serve task returns nil only after Shutdown was called.
C19_NilOnlyAfterCancelAndCleanShutdown ==
    /\ (pc = "done" /\ result = "nil") =>
          /\ ctxDone \/ signalled
          /\ shutdowns = 1
          /\ Ret("watch") = "nil"
          /\ Ret("serve") = "nil"
    /\ Ret("serve") = "nil" => (shutdowns = 1 /\ inShutdown /\ egCtxDone)

\* Serve has returned nil after serving: a signal arrived, the caller's ctx was
\* never cancelled.
C19_Witness ==
    /\ pc = "done"
    /\ result = "nil"
    /\ signalled /\ ~ctxDone
    /\ everRunning
    /\ Ret("watch") = "nil"
\* C18: after c.Override(p), c.TLS is p.TLS when p.TLS is not nil and is what
\* it was when p.TLS is nil.
C18_OverrideCoversTLS ==
    pc = "Override" =>
        cfg.TLS = IF other.TLS # "nil" THEN other.TLS ELSE built.TLS
\* Whether a call of Open returned an error.
Failed(call) == call.ret \notin {"nil", "panic"}

\* C20: once Open has returned nil, later calls return nil without opening a
\* pool or running migrations; and a call of Open that returns an error leaves
\* the client not marked opened, so that the next call connects again.
C20_OpenIdempotentAndRetryable ==
    pc = "client" =>
        /\ \A i, j \in 1..Len(openCalls) :
              (i < j /\ openCalls[i].ret = "nil") =>
                  /\ openCalls[j].ret = "nil"
                  /\ ~openCalls[j].connected
                  /\ ~openCalls[j].migrated
        /\ \A i \in 1..Len(openCalls) :
              Failed(openCalls[i]) =>
                  /\ ~openCalls[i].opened
                  /\ i < Len(openCalls) => openCalls[i + 1].connected

====
